---- MODULE Spec2Model ----
(***************************************************************************)
(* A model of the ordcode crate: the order-preserving primitive codec of   *)
(* src/src/primitives.rs, the double-ended buffer it writes to, and the    *)
(* top-level entry points of src/src/lib.rs.                               *)
(*                                                                         *)
(* Integers wider than TLC's own are kept as words: a word of an N-byte    *)
(* type is a sequence of limbs, least significant limb first; a limb is 8  *)
(* bits wide for the one-byte types and 16 bits wide otherwise.  A signed  *)
(* value is held by its two's complement bit pattern, so the `as` casts    *)
(* between iN and uN leave the word alone.                                 *)
(***************************************************************************)
EXTENDS Integers, Sequences, FiniteSets, TLC

VARIABLES
    ty,      \* SpecPrim: the primitive type under test
    P,       \* SpecPrim: the EncodingParams (endianness, order)
    target,  \* SpecPrim: byte order of the build target, read by to_ne_bytes
    a, b,    \* SpecPrim: two values of type ty
    ea, eb,  \* SpecPrim: the bytes serialize wrote for a and b
    da, db,  \* SpecPrim: the results of deserializing ea and eb
    ppc,     \* SpecPrim: "init", "ser" or "de"
    cval,    \* Spec: the value the caller serializes, a tuple struct of fields
    cord,    \* Spec: the Order the caller serializes with
    mem,     \* Spec: the caller's byte buffer
    origin,  \* Spec: what mem holds: "none", "zeroed", "failed", "encoded",
             \*       "truncated" or "padded"
    inv,     \* Spec: TRUE when mem is the bitwise complement of what origin says
    wr,      \* SpecBuf: a DeBytesWriter
    wlog,    \* SpecBuf: the writes that succeeded, oldest first
    wres,    \* SpecBuf: the last operation on wr: its argument, its result and
             \*          the writer it found
    ret      \* Spec: the last call of an entry point: its arguments, what it
             \*       returned and the bytes it found and left in the buffer

primVars == <<ty, P, target, a, b, ea, eb, da, db, ppc>>
apiVars  == <<cval, cord, mem, origin, inv, ret>>
bufVars  == <<wr, wlog, wres>>
vars     == <<ty, P, target, a, b, ea, eb, da, db, ppc, cval, cord, mem, origin, inv, ret,
             wr, wlog, wres>>

(***************************************************************************)
(* Bit operations on naturals.                                             *)
(***************************************************************************)
RECURSIVE BitXor(_, _)
BitXor(x, y) ==
    IF x = 0 THEN y
    ELSE IF y = 0 THEN x
    ELSE 2 * BitXor(x \div 2, y \div 2) + ((x + y) % 2)

RECURSIVE BitOr(_, _)
BitOr(x, y) ==
    IF x = 0 THEN y
    ELSE IF y = 0 THEN x
    ELSE 2 * BitOr(x \div 2, y \div 2) + (IF (x % 2) + (y % 2) > 0 THEN 1 ELSE 0)

(***************************************************************************)
(* Words.                                                                  *)
(***************************************************************************)
NLimbs(N)   == IF N = 1 THEN 1 ELSE N \div 2
LimbMax(N)  == IF N = 1 THEN 255 ELSE 65535
LimbHalf(N) == IF N = 1 THEN 128 ELSE 32768

ZeroWord(N) == [i \in 1..NLimbs(N) |-> 0]
OnesWord(N) == [i \in 1..NLimbs(N) |-> LimbMax(N)]

\* <$it>::min_value() as a bit pattern: only the sign bit set
min_value(N) == [i \in 1..NLimbs(N) |-> IF i = NLimbs(N) THEN LimbHalf(N) ELSE 0]

\* the operator ! of an unsigned or signed integer
NotW(w, N) == [i \in 1..NLimbs(N) |-> LimbMax(N) - w[i]]
\* the operators ^ and |
XorW(x, y, N) == [i \in 1..NLimbs(N) |-> BitXor(x[i], y[i])]
OrW(x, y, N)  == [i \in 1..NLimbs(N) |-> BitOr(x[i], y[i])]

SignBit(w, N) == w[NLimbs(N)] >= LimbHalf(N)

\* t >> MSBOFFS on a signed integer: an arithmetic shift by width-1 bits
SarMsb(w, N) == IF SignBit(w, N) THEN OnesWord(N) ELSE ZeroWord(N)

\* a < b for two unsigned integers
UnsignedLess(x, y, N) ==
    \E i \in 1..NLimbs(N) :
        /\ x[i] < y[i]
        /\ \A j \in (i + 1)..NLimbs(N) : x[j] = y[j]

\* a < b for two signed integers held as two's complement patterns
SignedLess(x, y, N) ==
    IF SignBit(x, N) # SignBit(y, N)
    THEN SignBit(x, N)
    ELSE UnsignedLess(x, y, N)

\* lexicographic order of two byte strings of the same length
LexLess(s, t) ==
    \E i \in 1..Len(s) :
        /\ i <= Len(t)
        /\ s[i] < t[i]
        /\ \A j \in 1..(i - 1) : s[j] = t[j]

(***************************************************************************)
(* to_le_bytes, to_be_bytes, to_ne_bytes and their inverses.               *)
(***************************************************************************)
\* byte k (1 = least significant) of word w
ByteOf(w, N, k) ==
    IF N = 1 THEN w[1]
    ELSE IF k % 2 = 1 THEN w[(k + 1) \div 2] % 256
    ELSE w[k \div 2] \div 256

to_le_bytes(w, N) == [k \in 1..N |-> ByteOf(w, N, k)]
to_be_bytes(w, N) == [k \in 1..N |-> ByteOf(w, N, N + 1 - k)]
to_ne_bytes(w, N) == IF target = "Little" THEN to_le_bytes(w, N) ELSE to_be_bytes(w, N)

from_le_bytes(v, N) ==
    IF N = 1 THEN <<v[1]>>
    ELSE [i \in 1..NLimbs(N) |-> v[2 * i - 1] + 256 * v[2 * i]]
\* from_be_bytes that reads the bytes in little-endian order
from_be_bytes_swapped(v, N) == from_le_bytes(v, N)

from_be_bytes(v, N) ==
    IF N = 1 THEN <<v[1]>>
    ELSE [i \in 1..NLimbs(N) |-> v[N + 2 - 2 * i] + 256 * v[N + 1 - 2 * i]]
from_ne_bytes(v, N) == IF target = "Little" THEN from_le_bytes(v, N) ELSE from_be_bytes(v, N)

\* params::Endianness, params::Order and the EncodingParams built of them
Endiannesses == {"Little", "Big", "Native"}
Orders       == {"Ascending", "Descending", "Unordered"}
Params       == [endianness : Endiannesses, order : Orders]

\* macro ord_cond!: pick $desc under Descending, $asc otherwise
ord_cond(param, desc, asc) ==
    IF param.order = "Descending" THEN desc ELSE asc

\* macro to_bytes!
to_bytes(param, w, N) ==
    CASE param.endianness = "Little" -> to_le_bytes(w, N)
      [] param.endianness = "Big"    -> to_be_bytes(w, N)
      [] param.endianness = "Native" -> to_ne_bytes(w, N)

\* macro from_bytes!
from_bytes(param, v, N) ==
    CASE param.endianness = "Little" -> from_le_bytes(v, N)
      [] param.endianness = "Big"    -> from_be_bytes(v, N)
      [] param.endianness = "Native" -> from_ne_bytes(v, N)

(***************************************************************************)
(* The double-ended buffer (crate::buf): one byte region, a head cursor    *)
(* moving up from 0 and a tail cursor moving down from the length.         *)
(***************************************************************************)
DeBytesWriter_new(buf) == [buf |-> buf, head |-> 0, tail |-> Len(buf)]

\* WriteBytes::write: append at the head
write(w, v) ==
    IF w.head + Len(v) > w.tail
    THEN [err |-> "BufferOverflow", w |-> w]
    ELSE [err |-> "Ok",
          w   |-> [w EXCEPT
                     !.buf  = [i \in 1..Len(w.buf) |->
                                 IF i > w.head /\ i <= w.head + Len(v)
                                 THEN v[i - w.head] ELSE w.buf[i]],
                     !.head = w.head + Len(v)]]

\* write_tail that checks the length against the tail alone
write_tail_nohead(w, v) ==
    IF Len(v) > w.tail
    THEN [err |-> "BufferOverflow", w |-> w]
    ELSE [err |-> "Ok",
          w   |-> [w EXCEPT
                     !.buf  = [i \in 1..Len(w.buf) |->
                                 IF i > w.tail - Len(v) /\ i <= w.tail
                                 THEN v[i - (w.tail - Len(v))] ELSE w.buf[i]],
                     !.tail = w.tail - Len(v)]]

\* TailWriteBytes::write_tail: write immediately before the tail
write_tail(w, v) ==
    IF w.head + Len(v) > w.tail
    THEN [err |-> "BufferOverflow", w |-> w]
    ELSE [err |-> "Ok",
          w   |-> [w EXCEPT
                     !.buf  = [i \in 1..Len(w.buf) |->
                                 IF i > w.tail - Len(v) /\ i <= w.tail
                                 THEN v[i - (w.tail - Len(v))] ELSE w.buf[i]],
                     !.tail = w.tail - Len(v)]]

\* DeBytesWriter::is_complete
is_complete(w) == IF w.head = w.tail THEN "Ok" ELSE "BufferUnderflow"

\* DeBytesWriter::finalize: close the gap between head and tail by moving the
\* tail region down to the head (copy_within); returns the bytes used
finalize(w) ==
    LET n   == Len(w.buf)
        gap == w.tail - w.head
    IN  [err |-> "Ok",
         len |-> n - gap,
         w   |-> [w EXCEPT
                    !.buf  = [i \in 1..n |->
                                IF i > w.head /\ i <= n - gap
                                THEN w.buf[i + gap] ELSE w.buf[i]],
                    !.tail = w.head]]

DeBytesReader_new(buf) == [buf |-> buf, head |-> 0, tail |-> Len(buf)]

\* the operator ? on a Result: an error ends the computation, a success goes on
Try(res, K(_)) == IF res.err # "Ok" THEN res ELSE K(res)
\* Result::map
Map(res, f(_)) == IF res.err # "Ok" THEN res ELSE [res EXCEPT !.val = f(res.val)]

\* ReadBytes::read: the closure f applied to the next n bytes at the head
read(r, n, f(_)) ==
    IF n > r.tail - r.head
    THEN [err |-> "PrematureEndOfInput", r |-> r]
    ELSE [err |-> "Ok",
          val |-> f(SubSeq(r.buf, r.head + 1, r.head + n)),
          r   |-> [r EXCEPT !.head = r.head + n]]

\* TailReadBytes::peek_tail: f applied to the n bytes just before the tail
peek_tail(r, n, f(_)) ==
    IF n > r.tail - r.head
    THEN [err |-> "PrematureEndOfInput", r |-> r]
    ELSE [err |-> "Ok", val |-> f(SubSeq(r.buf, r.tail - n + 1, r.tail)), r |-> r]

\* TailReadBytes::read_tail: peek_tail, then the tail moves down by n
read_tail(r, n, f(_)) ==
    IF n > r.tail - r.head
    THEN [err |-> "PrematureEndOfInput", r |-> r]
    ELSE [err |-> "Ok",
          val |-> f(SubSeq(r.buf, r.tail - n + 1, r.tail)),
          r   |-> [r EXCEPT !.tail = r.tail - n]]

(***************************************************************************)
(* The primitive codec (src/src/primitives.rs).  N is size_of::<$ut>().    *)
(***************************************************************************)
\* $ufn of serialize_int!
serialize_uint(w, value, N, param) ==
    write(w, to_bytes(param, ord_cond(param, NotW(value, N), value), N))

\* serialize_int with the min-value complement left out
serialize_int_nocomplement(w, value, N, param) ==
    serialize_uint(w, value, N, param)

\* $ifn of serialize_int!
serialize_int(w, value, N, param) ==
    serialize_uint(w, XorW(value, min_value(N), N), N, param)

\* deserialize_uint that does not undo the inversion of Descending
deserialize_uint_noinvert(r, N, param) ==
    read(r, N, LAMBDA buf : from_bytes(param, buf, N))

\* $dufn of serialize_int!
deserialize_uint(r, N, param) ==
    read(r, N, LAMBDA buf :
                 ord_cond(param, NotW(from_bytes(param, buf, N), N),
                                 from_bytes(param, buf, N)))

\* $difn of serialize_int!
deserialize_int(r, N, param) ==
    Map(deserialize_uint(r, N, param), LAMBDA u : XorW(u, min_value(N), N))

serialize_bool(w, v, param) ==
    serialize_uint(w, IF v THEN <<1>> ELSE <<0>>, 1, param)

deserialize_bool(r, param) ==
    Map(deserialize_uint(r, 1, param), LAMBDA v : v # <<0>>)

\* core::char::from_u32 accepts 0..=0x10FFFF without the surrogates D800..=DFFF
IsUnicodeScalar(u) ==
    /\ u[2] <= 16
    /\ ~(u[2] = 0 /\ u[1] >= 55296 /\ u[1] <= 57343)

serialize_char(w, v, param) == serialize_uint(w, v, 4, param)

deserialize_char(r, param) ==
    Try(deserialize_uint(r, 4, param),
        LAMBDA ch : IF IsUnicodeScalar(ch.val) THEN ch
                    ELSE [err |-> "InvalidUtf8Encoding", r |-> ch.r])

\* serialize_float that flips the sign bit only, also for negative values
serialize_float_signonly(w, value, N, param) ==
    LET ov == IF param.endianness = "Big" THEN XorW(value, min_value(N), N) ELSE value
    IN  write(w, to_bytes(param, ord_cond(param, NotW(ov, N), ov), N))

\* $sfn of serialize_float!; value is value.to_bits()
serialize_float(w, value, N, param) ==
    LET t  == value
        ov == IF param.endianness = "Big"
              THEN XorW(t, OrW(SarMsb(t, N), min_value(N), N), N)
              ELSE t
    IN  write(w, to_bytes(param, ord_cond(param, NotW(ov, N), ov), N))

\* $dfn of serialize_float!; the result is the bit pattern given to from_bits
deserialize_float(r, N, param) ==
    Map(deserialize_uint(r, N, param),
        LAMBDA val :
          IF param.endianness = "Big"
          THEN XorW(val,
                    OrW(SarMsb(XorW(val, min_value(N), N), N), min_value(N), N), N)
          ELSE val)

\* invert_buffer
invert_buffer(buf) == [i \in 1..Len(buf) |-> 255 - buf[i]]

(***************************************************************************)
(* The varint codec (crate::varint) for lengths: the low bits of the first *)
(* byte give the number of bytes, 1 then n-1 zeros for n bytes, and the    *)
(* value sits above them, little-endian.  varint(3) is the one byte 7.     *)
(***************************************************************************)
RECURSIVE varint_encoded_len(_)
varint_encoded_len(n) == IF n < 128 THEN 1 ELSE 1 + varint_encoded_len(n \div 128)

RECURSIVE Pow2(_)
Pow2(k) == IF k = 0 THEN 1 ELSE 2 * Pow2(k - 1)

RECURSIVE LeBytes(_, _)
LeBytes(x, n) == IF n = 0 THEN <<>> ELSE <<x % 256>> \o LeBytes(x \div 256, n - 1)

\* Lengths are u64 in the code; here a length of LenCap or more is held as
\* LenCap, which is beyond every buffer of the model
LenCap == 1073741824

RECURSIVE FromLe(_)
FromLe(v) ==
    IF v = <<>> THEN 0
    ELSE IF FromLe(Tail(v)) >= LenCap \div 256 THEN LenCap
    ELSE v[1] + 256 * FromLe(Tail(v))

Reverse(v) == [i \in 1..Len(v) |-> v[Len(v) + 1 - i]]

varint_encode(n) ==
    LeBytes(n * Pow2(varint_encoded_len(n)) + Pow2(varint_encoded_len(n) - 1),
            varint_encoded_len(n))

\* the number of bytes announced by the first byte: trailing zeros + 1
RECURSIVE varint_decoded_len(_)
varint_decoded_len(first) ==
    IF first = 0 THEN 9
    ELSE IF first % 2 = 1 THEN 1
    ELSE 1 + varint_decoded_len(first \div 2)

\* a length written through the tail: the first byte of the varint lies at the
\* highest address, where the reader finds it
write_len(w, n) == write_tail(w, Reverse(varint_encode(n)))

read_len(r) ==
    Try(peek_tail(r, 1, LAMBDA v : varint_decoded_len(v[1])),
        LAMBDA pk : read_tail(r, pk.val,
                              LAMBDA v : FromLe(Reverse(v)) \div Pow2(Len(v))))

(***************************************************************************)
(* The structured serializer, deserializer and size calculator             *)
(* (crate::ord_ser, crate::ord_de, crate::size_calc) for tuple structs of  *)
(* u16 and String fields.  A value is the sequence of its fields,          *)
(* [k |-> "u16", x |-> word] or [k |-> "str", s |-> bytes]; its shape is   *)
(* the sequence of their kinds.                                            *)
(***************************************************************************)
\* params::AscendingOrder
AscendingOrder == [endianness |-> "Big", order |-> "Ascending"]

U16(x) == [k |-> "u16", x |-> x, s |-> <<>>]
Str(s) == [k |-> "str", x |-> <<>>, s |-> s]
Shape(v) == [i \in 1..Len(v) |-> v[i].k]

\* Serializer::serialize_u16 and Serializer::serialize_str
serialize_field(w, f) ==
    IF f.k = "u16"
    THEN serialize_uint(w, f.x, 2, AscendingOrder)
    ELSE Try(write_len(w, Len(f.s)), LAMBDA t : write(t.w, f.s))

\* value.serialize(&mut ser) of a tuple struct: the fields in declared order,
\* the first error ending the pass
RECURSIVE serialize(_, _)
serialize(w, v) ==
    IF v = <<>> THEN [err |-> "Ok", w |-> w]
    ELSE Try(serialize_field(w, Head(v)), LAMBDA h : serialize(h.w, Tail(v)))

\* str::from_utf8 on the bytes the model can hold: none of them is the lead
\* byte of a multi-byte sequence, so a string is valid exactly when it is ASCII
Utf8Valid(bytes) == \A i \in 1..Len(bytes) : bytes[i] < 128

\* Deserializer::deserialize_u16 and Deserializer::deserialize_string
deserialize_field(r, k) ==
    IF k = "u16"
    THEN Map(deserialize_uint(r, 2, AscendingOrder), U16)
    ELSE Try(read_len(r), LAMBDA l :
         Try(read(l.r, l.val, LAMBDA bytes : bytes), LAMBDA c :
             IF Utf8Valid(c.val) THEN [c EXCEPT !.val = Str(c.val)]
             ELSE [err |-> "InvalidUtf8Encoding", r |-> c.r]))

\* T::deserialize(&mut deser) for a tuple struct of the given shape
RECURSIVE deserialize(_, _)
deserialize(r, shape) ==
    IF shape = <<>> THEN [err |-> "Ok", val |-> <<>>, r |-> r]
    ELSE Try(deserialize_field(r, Head(shape)), LAMBDA h :
         Map(deserialize(h.r, Tail(shape)), LAMBDA t : <<h.val>> \o t))

\* SizeCalc: fixed width for a scalar; content length plus the size of the
\* varint of that length for a string
RECURSIVE SizeCalc(_)
SizeCalc(v) ==
    IF v = <<>> THEN 0
    ELSE (IF Head(v).k = "u16" THEN 2
          ELSE Len(Head(v).s) + varint_encoded_len(Len(Head(v).s)))
         + SizeCalc(Tail(v))

Zeros(n) == [i \in 1..n |-> 0]

(***************************************************************************)
(* The entry points of src/src/lib.rs.  A result carries err and, besides  *)
(* what the function returns, the bytes the call leaves in the buffer.     *)
(***************************************************************************)
calc_size(v) == SizeCalc(v)

\* ser_to_buf_ordered that asks is_complete where the code asks finalize
ser_to_buf_ordered_exact(buf, v, order) ==
    LET Serialized(ser) ==
            IF ser.err # "Ok" THEN [err |-> ser.err, len |-> 0, buf |-> ser.w.buf]
            ELSE IF is_complete(ser.w) # "Ok"
            THEN [err |-> is_complete(ser.w), len |-> 0, buf |-> ser.w.buf]
            ELSE [err |-> "Ok",
                  len |-> Len(buf),
                  buf |-> IF order = "Descending"
                          THEN invert_buffer(ser.w.buf) ELSE ser.w.buf]
    IN  Serialized(serialize(DeBytesWriter_new(buf), v))

ser_to_buf_ordered(buf, v, order) ==
    LET Finalized(fin) ==
            IF fin.err # "Ok" THEN [err |-> fin.err, len |-> 0, buf |-> fin.w.buf]
            ELSE [err |-> "Ok",
                  len |-> fin.len,
                  buf |-> IF order = "Descending"
                          THEN invert_buffer(fin.w.buf) ELSE fin.w.buf]
        Serialized(ser) ==
            IF ser.err # "Ok" THEN [err |-> ser.err, len |-> 0, buf |-> ser.w.buf]
            ELSE Finalized(finalize(ser.w))
    IN  Serialized(serialize(DeBytesWriter_new(buf), v))

\* ser_to_buf_asc_exact that asks finalize where the code asks is_complete
ser_to_buf_asc_exact_finalize(buf, v) ==
    LET Serialized(ser) ==
            IF ser.err # "Ok" THEN [err |-> ser.err, buf |-> ser.w.buf]
            ELSE [err |-> finalize(ser.w).err, buf |-> finalize(ser.w).w.buf]
    IN  Serialized(serialize(DeBytesWriter_new(buf), v))

ser_to_buf_asc_exact(buf, v) ==
    LET Serialized(ser) ==
            IF ser.err # "Ok" THEN [err |-> ser.err, buf |-> ser.w.buf]
            ELSE [err |-> is_complete(ser.w), buf |-> ser.w.buf]
    IN  Serialized(serialize(DeBytesWriter_new(buf), v))

\* ser_to_vec_ordered that allocates one byte more than calc_size
ser_to_vec_ordered_offbyone(v, order) ==
    LET Serialized(ser) ==
            IF ser.err # "Ok" THEN [err |-> ser.err, vec |-> <<>>]
            ELSE IF is_complete(ser.w) # "Ok"
            THEN [err |-> is_complete(ser.w), vec |-> <<>>]
            ELSE [err |-> "Ok",
                  vec |-> IF order = "Descending"
                          THEN invert_buffer(ser.w.buf) ELSE ser.w.buf]
    IN  Serialized(serialize(DeBytesWriter_new(Zeros(calc_size(v) + 1)), v))

ser_to_vec_ordered(v, order) ==
    LET Serialized(ser) ==
            IF ser.err # "Ok" THEN [err |-> ser.err, vec |-> <<>>]
            ELSE IF is_complete(ser.w) # "Ok"
            THEN [err |-> is_complete(ser.w), vec |-> <<>>]
            ELSE [err |-> "Ok",
                  vec |-> IF order = "Descending"
                          THEN invert_buffer(ser.w.buf) ELSE ser.w.buf]
    IN  Serialized(serialize(DeBytesWriter_new(Zeros(calc_size(v))), v))

de_from_bytes_asc(input, shape) ==
    deserialize(DeBytesReader_new(input), shape)

\* de_from_bytes_ordered that never inverts its input
de_from_bytes_ordered_noinvert(input, shape, order) ==
    [res |-> deserialize(DeBytesReader_new(input), shape), input |-> input]

\* the input slice is mutable: "input" of the result is what the call leaves in it
\* de_from_bytes_ordered that inverts the input back before it returns
de_from_bytes_ordered_restoring(input, shape, order) ==
    LET Inverted(bytes) ==
            [res |-> deserialize(DeBytesReader_new(bytes), shape), input |-> input]
    IN  Inverted(IF order = "Descending" THEN invert_buffer(input) ELSE input)

de_from_bytes_ordered(input, shape, order) ==
    LET Inverted(bytes) ==
            [res |-> deserialize(DeBytesReader_new(bytes), shape), input |-> bytes]
    IN  Inverted(IF order = "Descending" THEN invert_buffer(input) ELSE input)

(***************************************************************************)
(***************************************************************************)
(* Spec: a caller of the entry points.  The caller picks a value and an    *)
(* order, serializes into a vector or into a buffer it allocated, may cut  *)
(* the last byte off the encoding or slip bytes in between its head and    *)
(* its tail part, and deserializes what the buffer then holds.             *)
(***************************************************************************)
MaxLen     == 3   \* longest string of a (u16, String) value
MaxPairLen == 1   \* longest string of a (String, String) value
MaxBuf     == 8   \* longest buffer the caller allocates
MaxPad     == 1   \* most bytes slipped into an encoding

\* string bytes: 3 is varint(1); 'a', 'b', 'c'
StrBytes  == {3, 97, 98, 99}
Strings(n) == UNION {[1..k -> StrBytes] : k \in 0..n}
U16Values == {<<1>>, <<258>>}
FillBytes == {0, 170}
PadBytes  == {97}

CallerValues ==
    {<<U16(x), Str(s)>> : x \in U16Values, s \in Strings(MaxLen)}
    \cup {<<Str(s), Str(t)>> : s \in Strings(MaxPairLen), t \in Strings(MaxPairLen)}

\* the bytes a value puts at the head: everything but the trailing lengths
RECURSIVE HeadSize(_)
HeadSize(v) ==
    IF v = <<>> THEN 0
    ELSE (IF Head(v).k = "u16" THEN 2 ELSE Len(Head(v).s)) + HeadSize(Tail(v))

\* what is kept of the call before the last one
NoPrev ==
    [op |-> "none", err |-> "None", val |-> <<>>, order |-> "Ascending",
     output |-> <<>>]

NoRet ==
    [op |-> "none", err |-> "None", val |-> <<>>, len |-> 0, head |-> 0, tail |-> 0,
     order |-> "Ascending", was |-> "none", fresh |-> TRUE, input |-> <<>>,
     output |-> <<>>, prev |-> NoPrev]

NoOp == [op |-> "none", bytes |-> <<>>, err |-> "None", len |-> 0,
         before |-> DeBytesWriter_new(<<>>)]

BufIdle ==
    /\ wr = DeBytesWriter_new(<<>>)
    /\ wlog = <<>>
    /\ wres = NoOp

PrimIdle ==
    /\ ty = [name |-> "u8", kind |-> "uint", size |-> 1]
    /\ P = AscendingOrder
    /\ target = "Little"
    /\ a = <<0>> /\ b = <<0>>
    /\ ea = <<>> /\ eb = <<>>
    /\ da = [err |-> "None"] /\ db = [err |-> "None"]
    /\ ppc = "idle"

ApiIdle ==
    /\ cval = <<>>
    /\ cord = "Ascending"
    /\ mem = <<>>
    /\ origin = "none"
    /\ inv = FALSE
    /\ ret = NoRet

Init ==
    /\ PrimIdle
    /\ BufIdle
    /\ cval \in CallerValues
    /\ cord \in Orders
    /\ mem = <<>>
    /\ origin = "none"
    /\ inv = FALSE
    /\ ret = NoRet

\* the record of a call; a de_from_bytes_ordered that follows a Descending
\* one keeps what that one returned and left in the buffer
Call(op) ==
    [NoRet EXCEPT !.op = op, !.was = origin, !.fresh = ~inv, !.input = mem,
                  !.prev = IF /\ op = "de_from_bytes_ordered" /\ ret.op = op
                              /\ ret.order = "Descending"
                           THEN [op |-> ret.op, err |-> ret.err, val |-> ret.val,
                                 order |-> ret.order, output |-> ret.output]
                           ELSE NoPrev]

CalcSize ==
    /\ origin = "none"
    /\ ret' = [Call("calc_size") EXCEPT !.err = "Ok", !.len = calc_size(cval)]
    /\ UNCHANGED <<cval, cord, mem, origin, inv>>
    /\ UNCHANGED primVars
    /\ UNCHANGED bufVars

SerToVecOrdered ==
    /\ origin = "none"
    /\ \E res \in {ser_to_vec_ordered(cval, cord)} :
           /\ mem' = res.vec
           /\ origin' = IF res.err = "Ok" THEN "encoded" ELSE "failed"
           /\ ret' = [Call("ser_to_vec_ordered") EXCEPT
                        !.err = res.err, !.len = Len(res.vec), !.order = cord,
                        !.output = res.vec]
    /\ UNCHANGED <<cval, cord, inv>>
    /\ UNCHANGED primVars
    /\ UNCHANGED bufVars

\* the caller allocates a buffer of n bytes
AllocBuf ==
    /\ origin = "none"
    /\ \E n \in 0..MaxBuf, fill \in FillBytes :
          mem' = [i \in 1..n |-> fill]
    /\ origin' = "zeroed"
    /\ UNCHANGED <<cval, cord, inv, ret>>
    /\ UNCHANGED primVars
    /\ UNCHANGED bufVars

SerToBufOrdered ==
    /\ origin = "zeroed"
    /\ \E res \in {ser_to_buf_ordered(mem, cval, cord)} :
           /\ mem' = res.buf
           /\ origin' = IF res.err # "Ok" THEN "failed"
                        ELSE IF res.len = Len(mem) THEN "encoded" ELSE "slack"
           /\ ret' = [Call("ser_to_buf_ordered") EXCEPT
                        !.err = res.err, !.len = res.len, !.order = cord,
                        !.output = res.buf]
    /\ UNCHANGED <<cval, cord, inv>>
    /\ UNCHANGED primVars
    /\ UNCHANGED bufVars

SerToBufAscExact ==
    /\ origin = "zeroed"
    /\ cord = "Ascending"
    /\ \E res \in {ser_to_buf_asc_exact(mem, cval)} :
           /\ mem' = res.buf
           /\ origin' = IF res.err = "Ok" THEN "encoded" ELSE "failed"
           /\ ret' = [Call("ser_to_buf_asc_exact") EXCEPT
                        !.err = res.err, !.output = res.buf]
    /\ UNCHANGED <<cval, cord, inv>>
    /\ UNCHANGED primVars
    /\ UNCHANGED bufVars

\* the caller drops the last byte of an encoding
Truncate ==
    /\ origin = "encoded" /\ ~inv
    /\ mem # <<>>
    /\ mem' = SubSeq(mem, 1, Len(mem) - 1)
    /\ origin' = "truncated"
    /\ UNCHANGED <<cval, cord, inv, ret>>
    /\ UNCHANGED primVars
    /\ UNCHANGED bufVars

\* the caller slips bytes in between the head part and the tail part
Pad ==
    /\ origin = "encoded" /\ ~inv
    /\ \E k \in 1..MaxPad : \E x \in [1..k -> PadBytes] :
          mem' = SubSeq(mem, 1, HeadSize(cval)) \o x
                 \o SubSeq(mem, HeadSize(cval) + 1, Len(mem))
    /\ origin' = "padded"
    /\ UNCHANGED <<cval, cord, inv, ret>>
    /\ UNCHANGED primVars
    /\ UNCHANGED bufVars

DeFromBytesAsc ==
    /\ origin \in {"encoded", "truncated", "padded"}
    /\ \E res \in {de_from_bytes_asc(mem, Shape(cval))} :
           ret' = [Call("de_from_bytes_asc") EXCEPT
                     !.err = res.err,
                     !.val = IF res.err = "Ok" THEN res.val ELSE <<>>,
                     !.head = res.r.head, !.tail = res.r.tail,
                     !.output = mem]
    /\ UNCHANGED <<cval, cord, mem, origin, inv>>
    /\ UNCHANGED primVars
    /\ UNCHANGED bufVars

DeFromBytesOrdered ==
    /\ origin \in {"encoded", "truncated", "padded"}
    /\ \E o \in Orders : \E call \in {de_from_bytes_ordered(mem, Shape(cval), o)} :
          \E res \in {call.res} :
              /\ ret' = [Call("de_from_bytes_ordered") EXCEPT
                           !.err = res.err,
                           !.val = IF res.err = "Ok" THEN res.val ELSE <<>>,
                           !.order = o,
                           !.head = res.r.head, !.tail = res.r.tail,
                           !.output = call.input]
              /\ mem' = call.input
              /\ inv' = (inv # (o = "Descending"))
    /\ UNCHANGED <<cval, cord, origin>>
    /\ UNCHANGED primVars
    /\ UNCHANGED bufVars

Next ==
    \/ CalcSize
    \/ SerToVecOrdered
    \/ AllocBuf
    \/ SerToBufOrdered
    \/ SerToBufAscExact
    \/ Truncate
    \/ Pad
    \/ DeFromBytesAsc
    \/ DeFromBytesOrdered

Spec == Init /\ [][Next]_vars

(***************************************************************************)
(* Claims about the entry points, checked under Spec.                      *)
(***************************************************************************)
Foo(x, s) == <<U16(<<x>>), Str(s)>>

\* the bytes one serialization pass writes, counted on both cursors of a
\* buffer that is large enough
Written(v) ==
    LET Count(ser) == ser.w.head + (Len(ser.w.buf) - ser.w.tail)
    IN  Count(serialize(DeBytesWriter_new(Zeros(calc_size(v) + MaxBuf)), v))

\* C4: calc_size(v) is the number of bytes the serializer writes for v, so
\* ser_to_vec_ordered never fails and returns a vector of calc_size(v) bytes.
C4_SizeExact ==
    ret.op = "ser_to_vec_ordered" =>
        /\ ret.err = "Ok"
        /\ Len(ret.output) = calc_size(cval)
        /\ Written(cval) = calc_size(cval)

\* (u16 = 1, "abc") has come out as a vector of 6 bytes
C4_Witness ==
    /\ ret.op = "ser_to_vec_ordered" /\ ret.err = "Ok"
    /\ cval = Foo(1, <<97, 98, 99>>)
    /\ Len(ret.output) = 6

\* C5: ser_to_buf_asc_exact returns Ok exactly when the buffer has calc_size(v)
\* bytes; a shorter buffer fails with BufferOverflow, a longer one with
\* BufferUnderflow.
C5_FillExact ==
    ret.op = "ser_to_buf_asc_exact" =>
        /\ ret.err = "Ok" <=> Len(ret.input) = calc_size(cval)
        /\ Len(ret.input) < calc_size(cval) => ret.err = "BufferOverflow"
        /\ Len(ret.input) > calc_size(cval) => ret.err = "BufferUnderflow"

\* a buffer one byte too long has been refused with BufferUnderflow
C5_Witness ==
    /\ ret.op = "ser_to_buf_asc_exact"
    /\ cval = Foo(1, <<97, 98, 99>>)
    /\ Len(ret.input) = 7
    /\ ret.err = "BufferUnderflow"

\* C6: into a buffer of at least calc_size(v) bytes, ser_to_buf_ordered with
\* Ascending succeeds and returns calc_size(v), and the first calc_size(v)
\* bytes are those of the exact-size encoding: the head content, then the
\* trailing lengths.
C6_LargerBuffer ==
    (/\ ret.op = "ser_to_buf_ordered"
     /\ cord = "Ascending"
     /\ Len(ret.input) >= calc_size(cval)) =>
        /\ ret.err = "Ok"
        /\ ret.len = calc_size(cval)
        /\ SubSeq(ret.output, 1, ret.len) = ser_to_vec_ordered(cval, "Ascending").vec
        /\ cval = Foo(1, <<97, 98, 99>>) =>
              SubSeq(ret.output, 1, ret.len) = <<0, 1, 97, 98, 99, 7>>

\* (u16 = 1, "abc") has gone into a buffer of 8 bytes
C6_Witness ==
    /\ ret.op = "ser_to_buf_ordered" /\ ret.err = "Ok"
    /\ cord = "Ascending"
    /\ cval = Foo(1, <<97, 98, 99>>)
    /\ Len(ret.input) = 8 /\ ret.input[1] = 170
    /\ ret.len = 6
    /\ SubSeq(ret.output, 1, 6) = <<0, 1, 97, 98, 99, 7>>

\* the bitwise complement of a byte string
Complement(bytes) == [i \in 1..Len(bytes) |-> BitXor(bytes[i], 255)]

\* C7: the Descending vector is the bytewise complement of the Ascending one,
\* and for Ascending and for Descending, de_from_bytes_ordered returns v from
\* the encoding of v in that order.
C7_DescendingRoundTrip ==
    /\ (ret.op = "ser_to_vec_ordered" /\ cord = "Descending") =>
          /\ ret.err = "Ok"
          /\ ret.output = Complement(ser_to_vec_ordered(cval, "Ascending").vec)
    /\ (/\ ret.op = "de_from_bytes_ordered"
        /\ ret.was = "encoded" /\ ret.fresh
        /\ cord \in {"Ascending", "Descending"}
        /\ ret.order = cord) =>
          /\ ret.err = "Ok"
          /\ ret.val = cval

\* FF FE 9E 9D 9C F8 has been decoded with Descending to (u16 = 1, "abc")
C7_Witness ==
    /\ ret.op = "de_from_bytes_ordered" /\ ret.err = "Ok"
    /\ cord = "Descending" /\ ret.order = "Descending"
    /\ ret.was = "encoded" /\ ret.fresh
    /\ ret.input = <<255, 254, 158, 157, 156, 248>>
    /\ ret.val = Foo(1, <<97, 98, 99>>)

\* de_from_bytes_asc has been given the Ascending encoding of a (u16, String)
\* value without its last byte
TruncatedCase ==
    /\ ret.op = "de_from_bytes_asc"
    /\ ret.was = "truncated" /\ ret.fresh
    /\ cord = "Ascending"
    /\ Shape(cval) = <<"u16", "str">>

C9_FullConsumption ==
    (ret.op \in {"de_from_bytes_asc", "de_from_bytes_ordered"} /\ ret.err = "Ok") =>
        ret.head = ret.tail

\* the last call was de_from_bytes_ordered with Descending on the buffer
\* that a successful de_from_bytes_ordered with Descending had just left
SecondDescending ==
    /\ ret.op = "de_from_bytes_ordered" /\ ret.order = "Descending"
    /\ ret.prev.op = "de_from_bytes_ordered" /\ ret.prev.order = "Descending"
    /\ ret.prev.err = "Ok"
    /\ ret.input = ret.prev.output

\* the bytes of a finalized buffer past the returned length that no write
\* and no move has touched
Untouched(v, buf, len) ==
    {i \in 1..Len(buf) : i > len /\ i <= Len(buf) - (calc_size(v) - HeadSize(v))}

C11_SlackWitness ==
    /\ ret.op = "ser_to_buf_ordered" /\ ret.order = "Descending"
    /\ cval = Foo(1, <<97, 98, 99>>)
    /\ ret.input = [i \in 1..8 |-> 170]
    /\ ret.err = "Ok" /\ ret.len = 6
    /\ SubSeq(ret.output, 1, 6) = <<255, 254, 158, 157, 156, 248>>
    /\ ret.output[7] = 85

\* (1, "abc") did not fit with Descending into 4 bytes of AA: the bytes
\* written before the failure are there as written
C11_FailedWitness ==
    /\ ret.op = "ser_to_buf_ordered" /\ ret.order = "Descending"
    /\ cval = Foo(1, <<97, 98, 99>>)
    /\ ret.input = [i \in 1..4 |-> 170]
    /\ ret.err = "BufferOverflow"
    /\ SubSeq(ret.output, 1, 2) = <<0, 1>>

(***************************************************************************)
(* SpecBuf: head writes and tail writes, in any order, on one DeBytesWriter *)
(* until it is finalized.                                                  *)
(***************************************************************************)
MaxRegion == 4   \* longest byte region a writer is made over
MaxWrite  == 2   \* longest slice given to one write

WriteBytes == {17, 34}
Slices == UNION {[1..k -> WriteBytes] : k \in 1..MaxWrite}

InitBuf ==
    /\ PrimIdle
    /\ ApiIdle
    /\ \E n \in 0..MaxRegion : wr = DeBytesWriter_new(Zeros(n))
    /\ wlog = <<>>
    /\ wres = NoOp

Open == wres.op # "finalize"

WriteHead ==
    /\ Open
    /\ \E v \in Slices : \E res \in {write(wr, v)} :
          /\ wr' = res.w
          /\ wres' = [NoOp EXCEPT !.op = "write", !.bytes = v, !.err = res.err,
                                  !.before = wr]
          /\ wlog' = IF res.err = "Ok"
                     THEN Append(wlog, [side |-> "head", at |-> wr.head, bytes |-> v])
                     ELSE wlog
    /\ UNCHANGED primVars
    /\ UNCHANGED apiVars

WriteTail ==
    /\ Open
    /\ \E v \in Slices : \E res \in {write_tail(wr, v)} :
          /\ wr' = res.w
          /\ wres' = [NoOp EXCEPT !.op = "write_tail", !.bytes = v, !.err = res.err,
                                  !.before = wr]
          /\ wlog' = IF res.err = "Ok"
                     THEN Append(wlog, [side |-> "tail", at |-> res.w.tail, bytes |-> v])
                     ELSE wlog
    /\ UNCHANGED primVars
    /\ UNCHANGED apiVars

IsComplete ==
    /\ Open
    /\ wres' = [NoOp EXCEPT !.op = "is_complete", !.err = is_complete(wr), !.before = wr]
    /\ UNCHANGED <<wr, wlog>>
    /\ UNCHANGED primVars
    /\ UNCHANGED apiVars

Finalize ==
    /\ Open
    /\ \E res \in {finalize(wr)} :
          /\ wr' = res.w
          /\ wres' = [NoOp EXCEPT !.op = "finalize", !.err = res.err, !.len = res.len,
                                  !.before = wr]
    /\ UNCHANGED wlog
    /\ UNCHANGED primVars
    /\ UNCHANGED apiVars

NextBuf == WriteHead \/ WriteTail \/ IsComplete \/ Finalize

SpecBuf == InitBuf /\ [][NextBuf]_vars

\* the writes of the log made through one cursor, oldest first
LogOf(side) == SelectSeq(wlog, LAMBDA e : e.side = side)

\* C10: 0 <= head <= tail <= N; no write moves head down or tail up; a write of
\* more than tail - head bytes fails with BufferOverflow and changes nothing;
\* every slice written through either cursor stays where it was put; head
\* writes lie end to end from address 0 up, tail writes end to end from
\* address N down, the first tail write highest.
C10_DualCursor ==
    Open =>
        /\ 0 <= wr.head /\ wr.head <= wr.tail /\ wr.tail <= Len(wr.buf)
        /\ wres.op \in {"write", "write_tail"} =>
              /\ wr.head >= wres.before.head
              /\ wr.tail <= wres.before.tail
              /\ Len(wres.bytes) > wres.before.tail - wres.before.head =>
                    (wres.err = "BufferOverflow" /\ wr = wres.before)
              /\ Len(wres.bytes) <= wres.before.tail - wres.before.head =>
                    wres.err = "Ok"
        /\ \A i \in 1..Len(wlog) :
              SubSeq(wr.buf, wlog[i].at + 1, wlog[i].at + Len(wlog[i].bytes))
                  = wlog[i].bytes
        /\ \A i \in 1..Len(LogOf("head")) :
              LogOf("head")[i].at =
                  IF i = 1 THEN 0
                  ELSE LogOf("head")[i - 1].at + Len(LogOf("head")[i - 1].bytes)
        /\ \A i \in 1..Len(LogOf("tail")) :
              LogOf("tail")[i].at + Len(LogOf("tail")[i].bytes) =
                  IF i = 1 THEN Len(wr.buf) ELSE LogOf("tail")[i - 1].at

\* after a head write and two tail writes, a write_tail of two bytes into the
\* one byte left has been refused
C10_Witness ==
    /\ Open
    /\ Len(wr.buf) = 4
    /\ Len(LogOf("head")) = 1 /\ Len(LogOf("tail")) = 2
    /\ wr.tail - wr.head = 1
    /\ wres.op = "write_tail" /\ Len(wres.bytes) = 2
    /\ wres.err = "BufferOverflow"

(***************************************************************************)
(* SpecPrim: the primitive codec applied to two values of one type.        *)
(***************************************************************************)
PrimTypes ==
    {[name |-> "u8",   kind |-> "uint",  size |-> 1],
     [name |-> "u16",  kind |-> "uint",  size |-> 2],
     [name |-> "u32",  kind |-> "uint",  size |-> 4],
     [name |-> "u64",  kind |-> "uint",  size |-> 8],
     [name |-> "u128", kind |-> "uint",  size |-> 16],
     [name |-> "i8",   kind |-> "int",   size |-> 1],
     [name |-> "i16",  kind |-> "int",   size |-> 2],
     [name |-> "i32",  kind |-> "int",   size |-> 4],
     [name |-> "i64",  kind |-> "int",   size |-> 8],
     [name |-> "i128", kind |-> "int",   size |-> 16],
     [name |-> "bool", kind |-> "bool",  size |-> 1],
     [name |-> "char", kind |-> "char",  size |-> 4],
     [name |-> "f32",  kind |-> "float", size |-> 4],
     [name |-> "f64",  kind |-> "float", size |-> 8]}

\* A word from its most significant limb and a pattern for the limbs below it
MkWord(top, fill, N) ==
    [i \in 1..NLimbs(N) |->
        IF i = NLimbs(N) THEN top
        ELSE CASE fill = "zero" -> 0
               [] fill = "ones" -> LimbMax(N)
               [] fill = "one"  -> IF i = 1 THEN 1 ELSE 0
               [] fill = "asym" -> (i * 258) % 65536]

\* Integers tried: 0, 1, -1, the signed and unsigned minimum and maximum, and
\* values whose bytes all differ
IntTops(N) ==
    IF N = 1 THEN {0, 1, 2, 127, 128, 254, 255}
    ELSE IF N = 2 THEN {0, 1, 258, 32767, 32768, 65534, 65535}
    ELSE {0, 32767, 32768, 65535}
IntValues(N) ==
    {MkWord(top, fill, N) : top \in IntTops(N), fill \in {"zero", "ones", "one", "asym"}}

\* chars tried: NUL, 'a', the scalars around the surrogate gap, U+1F600, U+10FFFF
CharValues ==
    {<<0, 0>>, <<97, 0>>, <<55295, 0>>, <<57344, 0>>, <<62976, 1>>, <<65535, 16>>}

\* The bit pattern of +infinity: exponent all ones, mantissa zero
FloatInf(N) == MkWord(IF N = 4 THEN 32640 ELSE 32752, "zero", N)
\* The bit pattern with the sign bit cleared
FloatMag(x, N) == [x EXCEPT ![NLimbs(N)] = x[NLimbs(N)] % LimbHalf(N)]
IsNaN(x, N)    == UnsignedLess(FloatInf(N), FloatMag(x, N), N)
IsZeroF(x, N)  == FloatMag(x, N) = ZeroWord(N)

\* a < b for two floats that are not NaN, by IEEE 754: -0.0 = +0.0
FloatLess(x, y, N) ==
    IF IsZeroF(x, N) /\ IsZeroF(y, N) THEN FALSE
    ELSE IF SignBit(x, N) # SignBit(y, N) THEN SignBit(x, N)
    ELSE IF SignBit(x, N) THEN UnsignedLess(FloatMag(y, N), FloatMag(x, N), N)
    ELSE UnsignedLess(FloatMag(x, N), FloatMag(y, N), N)

\* floats tried, each with both signs: 0.0, the least subnormal, 1.0, the
\* greatest finite value, infinity, a signalling and a quiet NaN
FloatMags(N) ==
    LET inf == IF N = 4 THEN 32640 ELSE 32752
        one == IF N = 4 THEN 16256 ELSE 16368
    IN  {MkWord(0, "zero", N), MkWord(0, "one", N), MkWord(one, "zero", N),
         MkWord(inf - 1, "ones", N), MkWord(inf, "zero", N),
         MkWord(inf, "one", N), MkWord(inf + (IF N = 4 THEN 64 ELSE 8), "zero", N)}
FloatValues(N) ==
    FloatMags(N) \cup {XorW(m, min_value(N), N) : m \in FloatMags(N)}

Values(t) ==
    CASE t.kind \in {"uint", "int"} -> IntValues(t.size)
      [] t.kind = "bool"            -> BOOLEAN
      [] t.kind = "char"            -> CharValues
      [] t.kind = "float"           -> FloatValues(t.size)

\* serialize_<type>(writer, value, param)
Serialize(t, w, v, param) ==
    CASE t.kind = "uint"  -> serialize_uint(w, v, t.size, param)
      [] t.kind = "int"   -> serialize_int(w, v, t.size, param)
      [] t.kind = "bool"  -> serialize_bool(w, v, param)
      [] t.kind = "char"  -> serialize_char(w, v, param)
      [] t.kind = "float" -> serialize_float(w, v, t.size, param)

\* deserialize_<type>(reader, param)
Deserialize(t, r, param) ==
    CASE t.kind = "uint"  -> deserialize_uint(r, t.size, param)
      [] t.kind = "int"   -> deserialize_int(r, t.size, param)
      [] t.kind = "bool"  -> deserialize_bool(r, param)
      [] t.kind = "char"  -> deserialize_char(r, param)
      [] t.kind = "float" -> deserialize_float(r, t.size, param)

\* a Result without the reader it came from
Outcome(d) == IF d.err = "Ok" THEN [err |-> "Ok", val |-> d.val] ELSE [err |-> d.err]

InitPrim ==
    /\ ty \in PrimTypes
    /\ P \in Params
    /\ target \in (IF P.endianness = "Native" THEN {"Little", "Big"} ELSE {"Little"})
    /\ a \in Values(ty)
    /\ b \in Values(ty)
    /\ ea = <<>> /\ eb = <<>>
    /\ da = [err |-> "None"] /\ db = [err |-> "None"]
    /\ ppc = "init"
    /\ ApiIdle
    /\ BufIdle

\* serialize a and b, each into a buffer of size_of::<T>() bytes
PrimSerialize ==
    /\ ppc = "init"
    /\ ea' = Serialize(ty, DeBytesWriter_new(Zeros(ty.size)), a, P).w.buf
    /\ eb' = Serialize(ty, DeBytesWriter_new(Zeros(ty.size)), b, P).w.buf
    /\ ppc' = "ser"
    /\ UNCHANGED <<ty, P, target, a, b, da, db>>
    /\ UNCHANGED apiVars
    /\ UNCHANGED bufVars

\* deserialize what was written
PrimDeserialize ==
    /\ ppc = "ser"
    /\ da' = Outcome(Deserialize(ty, DeBytesReader_new(ea), P))
    /\ db' = Outcome(Deserialize(ty, DeBytesReader_new(eb), P))
    /\ ppc' = "de"
    /\ UNCHANGED <<ty, P, target, a, b, ea, eb>>
    /\ UNCHANGED apiVars
    /\ UNCHANGED bufVars

NextPrim == PrimSerialize \/ PrimDeserialize

SpecPrim == InitPrim /\ [][NextPrim]_vars

(***************************************************************************)
(* Claims about the primitive codec, checked under SpecPrim.               *)
(***************************************************************************)
\* C1: every primitive value, under every endianness and order, deserializes
\* from the bytes serialize wrote for it to the same value; floats bit for bit,
\* NaN included.
C1_PrimitiveRoundTrip ==
    ppc = "de" =>
        /\ da.err = "Ok" /\ da.val = a
        /\ db.err = "Ok" /\ db.val = b

\* a negative NaN and +infinity of f64 have come back from a big-endian
\* Descending encoding, which is not the plain big-endian bit pattern
C1_Witness ==
    /\ ppc = "de"
    /\ ty.name = "f64" /\ P.endianness = "Big" /\ P.order = "Descending"
    /\ IsNaN(a, 8) /\ SignBit(a, 8) /\ da.val = a
    /\ b = FloatInf(8) /\ db.val = b /\ eb # to_be_bytes(b, 8)

IntLess(t, x, y) ==
    IF t.kind = "uint" THEN UnsignedLess(x, y, t.size) ELSE SignedLess(x, y, t.size)

\* C2: with big-endian layout, a < b for two integers of one type exactly when
\* the bytes written for a are lexicographically below those written for b
\* under Ascending, and exactly when they are above under Descending.
C2_IntegerOrder ==
    (ppc # "init" /\ ty.kind \in {"uint", "int"} /\ P.endianness = "Big") =>
        /\ P.order = "Ascending"  => (IntLess(ty, a, b) <=> LexLess(ea, eb))
        /\ P.order = "Descending" => (IntLess(ty, a, b) <=> LexLess(eb, ea))

\* i64: minimum against -1 under Descending
C2_Witness ==
    /\ ppc = "ser"
    /\ ty.name = "i64" /\ P.endianness = "Big" /\ P.order = "Descending"
    /\ a = min_value(8) /\ b = OnesWord(8)
    /\ LexLess(eb, ea)

FloatCase ==
    /\ ppc # "init"
    /\ ty.kind = "float" /\ P.endianness = "Big" /\ P.order = "Ascending"
    /\ ~IsNaN(a, ty.size) /\ ~IsNaN(b, ty.size)

\* C3 as stated: for floats that are not NaN, big-endian and Ascending,
\* a < b exactly when encode(a) < encode(b).
C3_FloatOrderIff ==
    FloatCase => (FloatLess(a, b, ty.size) <=> LexLess(ea, eb))

\* C3 amended: a < b implies encode(a) < encode(b), and encode(a) < encode(b)
\* implies a < b except for a = -0.0 and b = +0.0, which are numerically equal
\* and of which -0.0 is encoded below +0.0.
C3_FloatOrder ==
    FloatCase =>
        /\ FloatLess(a, b, ty.size) => LexLess(ea, eb)
        /\ LexLess(ea, eb) =>
              \/ FloatLess(a, b, ty.size)
              \/ (a = min_value(ty.size) /\ b = ZeroWord(ty.size))

\* f32: -0.0 against +0.0
C3_Witness ==
    /\ FloatCase
    /\ ty.name = "f32"
    /\ a = min_value(4) /\ b = ZeroWord(4)
    /\ LexLess(ea, eb) /\ ~FloatLess(a, b, 4)

====
